---- MODULE Spec2Model ----
(***************************************************************************)
(* A model of src/src/components/SRTTranslator.tsx: the SRT parser and     *)
(* generator as operators over sequences of characters, and the component  *)
(* as a state machine over its React state and its asynchronous            *)
(* translation runs.  A string is a sequence of one-character strings; a   *)
(* Hebrew letter is one element named after the letter.                    *)
(***************************************************************************)
EXTENDS Integers, Sequences, FiniteSets, TLC

VARIABLES
    \* the round trip parseSRT -> generateSRT on one input text
    srcDoc,            \* the input as it was composed: blocks of lines, separator, padding
    content,           \* the input text X handed to parseSRT
    parsed,            \* parseSRT(X)
    generated,         \* generateSRT(parseSRT(X))
    stage,             \* "idle" | "input" | "parsed" | "generated"
    \* the component
    selectedLanguage,  \* useState<string>('')
    file,              \* useState<File | null>(null)
    translatedSRT,     \* useState<string>('')
    isTranslating,     \* useState(false)
    originalEntries,   \* useState<SRTEntry[]>([])
    runs,              \* the handleTranslate calls that have not settled yet
    event              \* the handler or callback that ran in the last step: its name, the
                       \* notification it raised, the file it handed to the browser and
                       \* the handleTranslate call it belongs to

pureVars == <<srcDoc, content, parsed, generated, stage>>
uiVars == <<selectedLanguage, file, translatedSRT, isTranslating, originalEntries,
            runs, event>>
vars == <<srcDoc, content, parsed, generated, stage,
          selectedLanguage, file, translatedSRT, isTranslating, originalEntries,
          runs, event>>

-----------------------------------------------------------------------------
(* Bounds *)

\* blocks per composed input text
MaxBlocks == 2
\* handleTranslate calls in flight at once
MaxInFlight == 2

-----------------------------------------------------------------------------
(* Characters and strings *)

NL == "\n"
Digit == {"0", "1", "2", "3", "4", "5", "6", "7", "8", "9"}
\* the characters of the model that JavaScript's \s and String.prototype.trim
\* treat as white space
WhiteSpace == {" ", "\t", "\r", "\n"}

SetMin(S) == CHOOSE x \in S : \A y \in S : x <= y
SetMax(S) == CHOOSE x \in S : \A y \in S : x >= y

DigitVal(c) ==
    CASE c = "0" -> 0 [] c = "1" -> 1 [] c = "2" -> 2 [] c = "3" -> 3 [] c = "4" -> 4
      [] c = "5" -> 5 [] c = "6" -> 6 [] c = "7" -> 7 [] c = "8" -> 8 [] c = "9" -> 9

DigitChar(n) == <<"0", "1", "2", "3", "4", "5", "6", "7", "8", "9">>[n + 1]

\* the decimal text of a non-negative integer, as a template literal prints it
RECURSIVE ToDecimal(_)
ToDecimal(n) ==
    IF n < 10 THEN <<DigitChar(n)>> ELSE ToDecimal(n \div 10) \o <<DigitChar(n % 10)>>

\* String.prototype.trim
Trim(s) ==
    LET keep == {i \in 1..Len(s) : s[i] \notin WhiteSpace}
    IN  IF keep = {} THEN <<>> ELSE SubSeq(s, SetMin(keep), SetMax(keep))

TrimStart(s) ==
    LET keep == {i \in 1..Len(s) : s[i] \notin WhiteSpace}
    IN  IF keep = {} THEN <<>> ELSE SubSeq(s, SetMin(keep), Len(s))

\* Array.prototype.join
RECURSIVE Join(_, _)
Join(parts, sep) ==
    IF parts = <<>> THEN <<>>
    ELSE IF Len(parts) = 1 THEN parts[1]
    ELSE parts[1] \o sep \o Join(Tail(parts), sep)

\* s.split('\n'), the pieces of s from position `from` on
RECURSIVE SplitFrom(_, _)
SplitFrom(s, from) ==
    LET nls == {p \in from..Len(s) : s[p] = NL}
    IN  IF nls = {} THEN <<SubSeq(s, from, Len(s))>>
        ELSE <<SubSeq(s, from, SetMin(nls) - 1)>> \o SplitFrom(s, SetMin(nls) + 1)

SplitLines(s) == SplitFrom(s, 1)

\* where a match of /\n\s*\n/ that starts at p ends, 0 when there is none: \s* is
\* greedy and backtracks to the last line feed of the white space after p
SepEnd(s, p) ==
    IF s[p] # NL THEN 0
    ELSE LET stop == {q \in (p + 1)..Len(s) : s[q] \notin WhiteSpace}
             last == IF stop = {} THEN Len(s) ELSE SetMin(stop) - 1
             nls  == {q \in (p + 1)..last : s[q] = NL}
         IN  IF nls = {} THEN 0 ELSE SetMax(nls)

\* s.split(/\n\s*\n/), the pieces of s from position `from` on
RECURSIVE SplitBlocksFrom(_, _)
SplitBlocksFrom(s, from) ==
    LET starts == {p \in from..Len(s) : SepEnd(s, p) > 0}
    IN  IF starts = {} THEN <<SubSeq(s, from, Len(s))>>
        ELSE LET p == SetMin(starts)
             IN  <<SubSeq(s, from, p - 1)>> \o SplitBlocksFrom(s, SepEnd(s, p) + 1)

SplitBlocks(s) == SplitBlocksFrom(s, 1)

-----------------------------------------------------------------------------
(* parseSRT *)

Arrow == <<" ", "-", "-", ">", " ">>
\* \d{2}:\d{2}:\d{2},\d{3} with "d" standing for \d
TimecodePattern == <<"d", "d", ":", "d", "d", ":", "d", "d", ",", "d", "d", "d">>
\* /(\d{2}:\d{2}:\d{2},\d{3}) --> (\d{2}:\d{2}:\d{2},\d{3})/
TimePattern == TimecodePattern \o Arrow \o TimecodePattern

MatchAt(line, p) ==
    /\ p + Len(TimePattern) - 1 <= Len(line)
    /\ \A i \in 1..Len(TimePattern) :
          IF TimePattern[i] = "d" THEN line[p + i - 1] \in Digit
          ELSE line[p + i - 1] = TimePattern[i]

NoMatch == [found |-> FALSE, startTime |-> <<>>, endTime |-> <<>>]

\* lines[1].match(...): the leftmost match anywhere in the line and its two groups
TimeMatch(line) ==
    LET ps == {p \in 1..Len(line) : MatchAt(line, p)}
    IN  IF ps = {} THEN NoMatch
        ELSE LET p == SetMin(ps)
                 n == Len(TimecodePattern)
             IN  [found     |-> TRUE,
                  startTime |-> SubSeq(line, p, p + n - 1),
                  endTime   |-> SubSeq(line, p + n + Len(Arrow), p + 2 * n + Len(Arrow) - 1)]

NaN == [isNaN |-> TRUE, value |-> 0]
Num(n) == [isNaN |-> FALSE, value |-> n]

RECURSIVE DecimalValue(_)
DecimalValue(ds) ==
    IF ds = <<>> THEN 0 ELSE 10 * DecimalValue(SubSeq(ds, 1, Len(ds) - 1)) + DigitVal(ds[Len(ds)])

\* parseInt(s): white space, an optional sign and the leading decimal digits
ParseInt(s) ==
    LET t    == TrimStart(s)
        sgn  == t # <<>> /\ t[1] \in {"+", "-"}
        body == IF sgn THEN Tail(t) ELSE t
        stop == {i \in 1..Len(body) : body[i] \notin Digit}
        n    == IF stop = {} THEN Len(body) ELSE SetMin(stop) - 1
    IN  IF n = 0 THEN NaN
        ELSE IF sgn /\ t[1] = "-" THEN Num(0 - DecimalValue(SubSeq(body, 1, n)))
        ELSE Num(DecimalValue(SubSeq(body, 1, n)))

\* a variant that accepts a block of two lines
ParseBlockShortBlocks(block) ==
    LET lines == SplitLines(block)
    IN  IF Len(lines) >= 2
        THEN LET timeMatch == TimeMatch(lines[2])
             IN  IF timeMatch.found
                 THEN <<[index     |-> ParseInt(Trim(lines[1])),
                         startTime |-> timeMatch.startTime,
                         endTime   |-> timeMatch.endTime,
                         text      |-> Trim(Join(SubSeq(lines, 3, Len(lines)), <<NL>>))]>>
                 ELSE <<>>
        ELSE <<>>

\* a variant that keeps the first caption line only
ParseBlockFirstTextLine(block) ==
    LET lines == SplitLines(block)
    IN  IF Len(lines) >= 3
        THEN LET timeMatch == TimeMatch(lines[2])
             IN  IF timeMatch.found
                 THEN <<[index     |-> ParseInt(Trim(lines[1])),
                         startTime |-> timeMatch.startTime,
                         endTime   |-> timeMatch.endTime,
                         text      |-> Trim(lines[3])]>>
                 ELSE <<>>
        ELSE <<>>

\* the body of blocks.forEach: the entries one block adds
ParseBlock(block) ==
    LET lines == SplitLines(block)
    IN  IF Len(lines) >= 3
        THEN LET timeMatch == TimeMatch(lines[2])
             IN  IF timeMatch.found
                 THEN <<[index     |-> ParseInt(Trim(lines[1])),
                         startTime |-> timeMatch.startTime,
                         endTime   |-> timeMatch.endTime,
                         text      |-> Trim(Join(SubSeq(lines, 3, Len(lines)), <<NL>>))]>>
                 ELSE <<>>
        ELSE <<>>

RECURSIVE ParseBlocks(_)
ParseBlocks(blocks) ==
    IF blocks = <<>> THEN <<>> ELSE ParseBlock(Head(blocks)) \o ParseBlocks(Tail(blocks))

parseSRT(text) == ParseBlocks(SplitBlocks(Trim(text)))

-----------------------------------------------------------------------------
(* generateSRT *)

\* a variant that writes the index parsed from the input
GenerateBlockKeepIndex(entry, index) ==
    ToDecimal(IF entry.index.isNaN THEN 0 ELSE entry.index.value) \o <<NL>>
        \o entry.startTime \o Arrow \o entry.endTime \o <<NL>>
        \o entry.text \o <<NL>>

\* the template literal of one entry at 0-based position index
GenerateBlock(entry, index) ==
    ToDecimal(index + 1) \o <<NL>>
        \o entry.startTime \o Arrow \o entry.endTime \o <<NL>>
        \o entry.text \o <<NL>>

generateSRT(entries) ==
    Join([k \in 1..Len(entries) |-> GenerateBlock(entries[k], k - 1)], <<NL>>)

-----------------------------------------------------------------------------
(* Input texts for the round trip.  An input is composed of blocks of lines;  *)
(* each block records what was written into it: whether its second line       *)
(* carries a timecode range, the two timecodes as written, and its caption.   *)

TcOne   == <<"0", "0", ":", "0", "0", ":", "0", "1", ",", "0", "0", "0">>
TcTwo   == <<"0", "0", ":", "0", "0", ":", "0", "2", ",", "0", "0", "0">>
TcNine  == <<"0", "0", ":", "0", "0", ":", "0", "9", ",", "5", "0", "0">>
TcThree == <<"0", "0", ":", "0", "0", ":", "0", "3", ",", "2", "5", "0">>
\* an hours field three digits wide
TcHundredHours == <<"1", "0", "0", ":", "0", "0", ":", "0", "1", ",", "0", "0", "0">>
NotATimecode == <<"n", "o", "t", "-", "a", "-", "t", "i", "m", "e", "c", "o", "d", "e">>
Hello   == <<"H", "e", "l", "l", "o">>
LineOne == <<"L", "i", "n", "e", " ", "o", "n", "e">>
LineTwo == <<"L", "i", "n", "e", " ", "t", "w", "o">>

BlockHello ==
    [lines |-> <<<<"1">>, TcOne \o Arrow \o TcTwo, Hello>>,
     tc |-> TRUE, start |-> TcOne, end |-> TcTwo, text |-> Hello]
\* index 7, end before start, a caption of two lines
BlockTwoLines ==
    [lines |-> <<<<"7">>, TcNine \o Arrow \o TcThree, LineOne, LineTwo>>,
     tc |-> TRUE, start |-> TcNine, end |-> TcThree, text |-> LineOne \o <<NL>> \o LineTwo]
\* a non-numeric index line, white space around the caption
BlockNoNumber ==
    [lines |-> <<<<"x">>, TcTwo \o Arrow \o TcThree, <<" ", "H", "i", " ">>>>,
     tc |-> TRUE, start |-> TcTwo, end |-> TcThree, text |-> <<"H", "i">>]
BlockNotATimecode ==
    [lines |-> <<<<"5">>, NotATimecode, Hello>>,
     tc |-> FALSE, start |-> <<>>, end |-> <<>>, text |-> Hello]
\* index and timecode line, no caption
BlockNoText ==
    [lines |-> <<<<"3">>, TcOne \o Arrow \o TcTwo>>,
     tc |-> TRUE, start |-> TcOne, end |-> TcTwo, text |-> <<>>]
\* index 7 again, the start timecode with the wide hours field
BlockWide ==
    [lines |-> <<<<"7">>, TcHundredHours \o Arrow \o TcTwo, <<"W", "i", "d", "e">>>>,
     tc |-> TRUE, start |-> TcHundredHours, end |-> TcTwo, text |-> <<"W", "i", "d", "e">>]
\* the end timecode with the wide hours field: the pattern is nowhere on the line
BlockWideEnd ==
    [lines |-> <<<<"8">>, TcOne \o Arrow \o TcHundredHours, Hello>>,
     tc |-> FALSE, start |-> TcOne, end |-> TcHundredHours, text |-> Hello]
BlockOneLine ==
    [lines |-> <<<<"j", "u", "n", "k">>>>,
     tc |-> FALSE, start |-> <<>>, end |-> <<>>, text |-> <<>>]
\* CR LF line ends
BlockCRLF ==
    [lines |-> <<<<"4", "\r">>, TcTwo \o Arrow \o TcNine \o <<"\r">>,
                 <<"B", "y", "e", "\r">>, <<"n", "o", "w", "\r">>>>,
     tc |-> TRUE, start |-> TcTwo, end |-> TcNine,
     text |-> <<"B", "y", "e", "\r", NL, "n", "o", "w">>]

BlockSet == {BlockHello, BlockTwoLines, BlockNoNumber, BlockNotATimecode,
             BlockNoText, BlockWide, BlockWideEnd, BlockOneLine, BlockCRLF}

\* one blank line; several blank lines holding white space
SepPlain == <<NL, NL>>
SepWide  == <<NL, " ", "\t", NL, "\r", NL>>
NoPad    == [lead |-> <<>>, trail |-> <<>>]
BlankPad == [lead |-> <<NL, " ">>, trail |-> <<" ", NL, NL>>]

Docs ==
    {[blocks |-> bs, sep |-> SepPlain, pad |-> p] :
        bs \in UNION {[1..n -> BlockSet] : n \in 0..1}, p \in {NoPad, BlankPad}}
    \cup
    {[blocks |-> bs, sep |-> s, pad |-> p] :
        bs \in UNION {[1..n -> BlockSet] : n \in 2..MaxBlocks},
        s \in {SepPlain, SepWide}, p \in {NoPad, BlankPad}}

BlockText(b) == Join(b.lines, <<NL>>)

Render(doc) ==
    doc.pad.lead
        \o Join([k \in 1..Len(doc.blocks) |-> BlockText(doc.blocks[k])], doc.sep)
        \o doc.pad.trail

\* the claim's condition on a block: at least three lines, a timecode range on the second
ShouldRetain(b) == Len(b.lines) >= 3 /\ b.tc
Retained(doc) == SelectSeq(doc.blocks, ShouldRetain)

NoDoc == [blocks |-> <<>>, sep |-> SepPlain, pad |-> NoPad]

-----------------------------------------------------------------------------
(* The round trip as a state machine *)

PureIdle ==
    /\ srcDoc = NoDoc
    /\ content = <<>>
    /\ parsed = <<>>
    /\ generated = <<>>
    /\ stage = "idle"

PureInput ==
    /\ srcDoc \in Docs
    /\ content = Render(srcDoc)
    /\ parsed = <<>>
    /\ generated = <<>>
    /\ stage = "input"

Parse ==
    /\ stage = "input"
    /\ parsed' = parseSRT(content)
    /\ stage' = "parsed"
    /\ UNCHANGED <<srcDoc, content, generated>>
    /\ UNCHANGED uiVars

Generate ==
    /\ stage = "parsed"
    /\ generated' = generateSRT(parsed)
    /\ stage' = "generated"
    /\ UNCHANGED <<srcDoc, content, parsed>>
    /\ UNCHANGED uiVars

-----------------------------------------------------------------------------
(* translateText *)

HebrewPrefix  == <<"TAV", "RESH", "GIMEL", "VAV", "FINALMEM", ":", " ">>
EnglishPrefix == <<"T", "r", "a", "n", "s", "l", "a", "t", "i", "o", "n", ":", " ">>

\* the value the promise of translateText resolves with
translateText(text, targetLanguage) ==
    IF targetLanguage = "hebrew" THEN HebrewPrefix \o text ELSE EnglishPrefix \o text

-----------------------------------------------------------------------------
(* The component: files, notifications, runs *)

\* the values of the two SelectItem elements
Languages == {"hebrew", "english"}

NoFile == [isNull |-> TRUE, name |-> <<>>, content |-> <<>>]
File(name, text) == [isNull |-> FALSE, name |-> name, content |-> text]

\* three captions behind indices 7, 1, x, with a malformed block among them
FileA == File(<<"a", ".", "s", "r", "t">>,
              Render([blocks |-> <<BlockTwoLines, BlockNotATimecode, BlockHello, BlockNoNumber>>,
                      sep |-> SepPlain, pad |-> BlankPad]))
\* no block that parseSRT retains
FileB == File(<<"B", ".", "S", "R", "T">>,
              Render([blocks |-> <<BlockNotATimecode>>, sep |-> SepPlain, pad |-> NoPad]))
\* one caption
FileC == File(<<"c", ".", "s", "r", "t">>,
              Render([blocks |-> <<BlockCRLF>>, sep |-> SepPlain, pad |-> NoPad]))
FileTxt == File(<<"n", "o", "t", "e", "s", ".", "t", "x", "t">>, Hello)

\* what the file input can hand to handleFileSelect; NoFile is an empty FileList
PickableFiles == {FileA, FileB, FileC, FileTxt, NoFile}
\* the files of SpecDirect, where calls of handleTranslate overlap
PickableFilesDirect == {FileC, FileTxt, NoFile}

\* the notifications of toast.error and toast.success
NoToast          == "none"
ToastBadFile     == "error: select a valid SRT file"
ToastFileLoaded  == "success: file loaded"
ToastMissing     == "error: select a file and a language"
ToastTranslated  == "success: translation completed"
ToastFailed      == "error: translating the file failed"
ToastDownloaded  == "success: translated file downloaded"

NoDownload == [made |-> FALSE, name |-> <<>>, content |-> <<>>]

NoRun == [file |-> NoFile, lang |-> "", phase |-> "none",
          entries |-> <<>>, calls |-> <<>>, order |-> <<>>]

Event(name, note, run) == [name |-> name, toast |-> note, run |-> run, download |-> NoDownload]

RemoveAt(seq, i) == SubSeq(seq, 1, i - 1) \o SubSeq(seq, i + 1, Len(seq))

\* String.prototype.toLowerCase on the letters of the model's file names
ToLowerChar(c) ==
    CASE c = "S" -> "s" [] c = "R" -> "r" [] c = "T" -> "t" [] c = "B" -> "b"
      [] OTHER -> c
ToLowerCase(s) == [i \in 1..Len(s) |-> ToLowerChar(s[i])]

EndsWith(s, suffix) ==
    /\ Len(s) >= Len(suffix)
    /\ SubSeq(s, Len(s) - Len(suffix) + 1, Len(s)) = suffix

DotSrt == <<".", "s", "r", "t">>

UIInit ==
    /\ selectedLanguage = ""
    /\ file = NoFile
    /\ translatedSRT = <<>>
    /\ isTranslating = FALSE
    /\ originalEntries = <<>>
    /\ runs = <<>>
    /\ event = Event("mount", NoToast, NoRun)

-----------------------------------------------------------------------------
(* Handlers *)

\* Select onValueChange={setSelectedLanguage}
SetSelectedLanguage ==
    \E l \in Languages :
        /\ selectedLanguage' = l
        /\ event' = Event("setSelectedLanguage", NoToast, NoRun)
        /\ UNCHANGED <<file, translatedSRT, isTranslating, originalEntries, runs>>
        /\ UNCHANGED pureVars

handleFileSelect(selectedFile) ==
    IF selectedFile.isNull
    THEN /\ event' = Event("handleFileSelect", NoToast, NoRun)
         /\ UNCHANGED <<file, translatedSRT>>
    ELSE IF ~EndsWith(ToLowerCase(selectedFile.name), DotSrt)
    THEN /\ event' = Event("handleFileSelect", ToastBadFile, NoRun)
         /\ UNCHANGED <<file, translatedSRT>>
    ELSE /\ file' = selectedFile
         /\ translatedSRT' = <<>>
         /\ event' = Event("handleFileSelect", ToastFileLoaded, NoRun)

HandleFileSelect ==
    \E f \in PickableFiles :
        /\ handleFileSelect(f)
        /\ UNCHANGED <<selectedLanguage, isTranslating, originalEntries, runs>>
        /\ UNCHANGED pureVars

\* the call a handleTranslate invocation starts: file and selectedLanguage as the
\* callback closed over them, awaiting file.text()
NewRun == [file |-> file, lang |-> selectedLanguage, phase |-> "reading",
           entries |-> <<>>, calls |-> <<>>, order |-> <<>>]

\* a variant with && for ||
MissingInputBothOnly == file.isNull /\ selectedLanguage = ""
\* the guard of handleTranslate
MissingInput == file.isNull \/ selectedLanguage = ""

\* handleTranslate up to its first await
handleTranslate ==
    IF MissingInput
    THEN /\ event' = Event("handleTranslate", ToastMissing, NoRun)
         /\ UNCHANGED <<isTranslating, runs>>
    ELSE /\ Len(runs) < MaxInFlight
         /\ isTranslating' = TRUE
         /\ runs' = Append(runs, NewRun)
         /\ event' = Event("handleTranslate", NoToast, NewRun)

\* a variant that leaves the button enabled while translating
TranslateButtonDisabledNoBusyCheck == file.isNull \/ selectedLanguage = ""
\* the disabled attribute of the translate button
TranslateButtonDisabled == file.isNull \/ selectedLanguage = "" \/ isTranslating

\* a click on the translate button, which the browser delivers only while the
\* button is enabled; React renders between two events
ClickTranslate ==
    /\ ~TranslateButtonDisabled
    /\ handleTranslate
    /\ UNCHANGED <<selectedLanguage, file, translatedSRT, originalEntries>>
    /\ UNCHANGED pureVars

\* handleTranslate called whatever the button shows
CallHandleTranslate ==
    /\ handleTranslate
    /\ UNCHANGED <<selectedLanguage, file, translatedSRT, originalEntries>>
    /\ UNCHANGED pureVars

handleDownload ==
    IF translatedSRT = <<>>
    THEN event' = Event("handleDownload", NoToast, NoRun)
    ELSE event' = [name |-> "handleDownload", toast |-> ToastDownloaded, run |-> NoRun,
                   download |->
                       [made |-> TRUE,
                        name |-> <<"t", "r", "a", "n", "s", "l", "a", "t", "e", "d", "_">>
                                 \o (IF file.isNull \/ file.name = <<>>
                                     THEN <<"s", "u", "b", "t", "i", "t", "l", "e", "s",
                                            ".", "s", "r", "t">>
                                     ELSE file.name),
                        content |-> translatedSRT]]

\* a click on the download button, which is rendered only while translatedSRT is not empty
ClickDownload ==
    /\ translatedSRT # <<>>
    /\ handleDownload
    /\ UNCHANGED <<selectedLanguage, file, translatedSRT, isTranslating, originalEntries, runs>>
    /\ UNCHANGED pureVars

CallHandleDownload ==
    /\ handleDownload
    /\ UNCHANGED <<selectedLanguage, file, translatedSRT, isTranslating, originalEntries, runs>>
    /\ UNCHANGED pureVars

-----------------------------------------------------------------------------
(* The asynchronous part of handleTranslate *)

\* a variant that orders the results by completion
PromiseAllCompletionOrder(run) ==
    [k \in 1..Len(run.entries) |->
        [run.entries[run.order[k]] EXCEPT !.text = run.calls[run.order[k]].value]]

\* what Promise.all resolves with: the mapped entries in the order of the array
PromiseAll(run) ==
    [k \in 1..Len(run.entries) |-> [run.entries[k] EXCEPT !.text = run.calls[k].value]]

AllResolved(run) == \A k \in 1..Len(run.calls) : run.calls[k].status = "resolved"

\* the rest of the try block once Promise.all has resolved, and the finally block
Succeed(i, run, name) ==
    /\ translatedSRT' = generateSRT(PromiseAll(run))
    /\ isTranslating' = FALSE
    /\ runs' = RemoveAt(runs, i)
    /\ event' = Event(name, ToastTranslated, [run EXCEPT !.phase = "resolved"])

\* a variant without all-or-nothing: the entries whose calls resolved are generated
FailKeepPartial(i, run, name) ==
    /\ translatedSRT' =
          generateSRT(PromiseAll([run EXCEPT
              !.entries = SelectSeq(run.entries, LAMBDA e :
                              \E k \in 1..Len(run.calls) :
                                  run.entries[k] = e /\ run.calls[k].status = "resolved"),
              !.calls = SelectSeq(run.calls, LAMBDA c : c.status = "resolved")]))
    /\ isTranslating' = FALSE
    /\ runs' = RemoveAt(runs, i)
    /\ event' = Event(name, ToastFailed, [run EXCEPT !.phase = "rejected"])

\* the catch block and the finally block
Fail(i, run, name) ==
    /\ isTranslating' = FALSE
    /\ runs' = RemoveAt(runs, i)
    /\ event' = Event(name, ToastFailed, [run EXCEPT !.phase = "rejected"])
    /\ UNCHANGED translatedSRT

\* file.text() resolves: parse, setOriginalEntries, one translateText call per entry
FileTextResolve ==
    \E i \in 1..Len(runs) :
        /\ runs[i].phase = "reading"
        /\ LET entries == parseSRT(runs[i].file.content)
               run == [runs[i] EXCEPT
                          !.phase = "translating",
                          !.entries = entries,
                          !.calls = [k \in 1..Len(entries) |->
                                        [status |-> "pending", value |-> <<>>]]]
           IN  /\ originalEntries' = entries
               /\ IF AllResolved(run)
                  THEN Succeed(i, run, "fileTextResolve")
                  ELSE /\ runs' = [runs EXCEPT ![i] = run]
                       /\ event' = Event("fileTextResolve", NoToast, run)
                       /\ UNCHANGED <<translatedSRT, isTranslating>>
        /\ UNCHANGED <<selectedLanguage, file>>
        /\ UNCHANGED pureVars

\* file.text() rejects
FileTextReject ==
    \E i \in 1..Len(runs) :
        /\ runs[i].phase = "reading"
        /\ Fail(i, runs[i], "fileTextReject")
        /\ UNCHANGED <<selectedLanguage, file, originalEntries>>
        /\ UNCHANGED pureVars

\* the translateText call of entry k resolves; Promise.all resolves with the last one
TranslateTextResolve ==
    \E i \in 1..Len(runs) : \E k \in 1..Len(runs[i].calls) :
        /\ runs[i].phase = "translating"
        /\ runs[i].calls[k].status = "pending"
        /\ LET run == [runs[i] EXCEPT
                          !.calls[k] = [status |-> "resolved",
                                        value |-> translateText(runs[i].entries[k].text,
                                                                runs[i].lang)],
                          !.order = Append(runs[i].order, k)]
           IN  IF AllResolved(run)
               THEN Succeed(i, run, "translateTextResolve")
               ELSE /\ runs' = [runs EXCEPT ![i] = run]
                    /\ event' = Event("translateTextResolve", NoToast, run)
                    /\ UNCHANGED <<translatedSRT, isTranslating>>
        /\ UNCHANGED <<selectedLanguage, file, originalEntries>>
        /\ UNCHANGED pureVars

\* the translator call of entry k rejects; Promise.all rejects with the first one
TranslateTextReject ==
    \E i \in 1..Len(runs) : \E k \in 1..Len(runs[i].calls) :
        /\ runs[i].phase = "translating"
        /\ runs[i].calls[k].status = "pending"
        /\ Fail(i, [runs[i] EXCEPT !.calls[k] = [status |-> "rejected", value |-> <<>>],
                                   !.order = Append(runs[i].order, k)],
                "translateTextReject")
        /\ UNCHANGED <<selectedLanguage, file, originalEntries>>
        /\ UNCHANGED pureVars

-----------------------------------------------------------------------------
(* Specifications *)

\* the component as the user drives it
Init == PureIdle /\ UIInit

Next ==
    \/ SetSelectedLanguage
    \/ HandleFileSelect
    \/ ClickTranslate
    \/ ClickDownload
    \/ FileTextResolve
    \/ FileTextReject
    \/ TranslateTextResolve
    \/ TranslateTextReject

Spec == Init /\ [][Next]_vars

\* the round trip on every composed input
InitPure == PureInput /\ UIInit

NextPure == Parse \/ Generate

SpecPure == InitPure /\ [][NextPure]_vars

\* the handlers called directly, whatever the two buttons show
HandleFileSelectDirect ==
    \E f \in PickableFilesDirect :
        /\ handleFileSelect(f)
        /\ UNCHANGED <<selectedLanguage, isTranslating, originalEntries, runs>>
        /\ UNCHANGED pureVars

NextDirect ==
    \/ SetSelectedLanguage
    \/ HandleFileSelectDirect
    \/ CallHandleTranslate
    \/ CallHandleDownload
    \/ FileTextResolve
    \/ FileTextReject
    \/ TranslateTextResolve
    \/ TranslateTextReject

SpecDirect == Init /\ [][NextDirect]_vars

-----------------------------------------------------------------------------
(* Properties of the round trip, under SpecPure *)

RECURSIVE Flatten(_)
Flatten(seqs) == IF seqs = <<>> THEN <<>> ELSE Head(seqs) \o Flatten(Tail(seqs))

\* line n of block k of a generated text
OutputLine(text, k, n) == SplitLines(SplitBlocks(text)[k])[n]

\* C1: generateSRT(parseSRT(X)) has one block per retained block of X, the index
\* lines are 1, 2, ..., N in that order, and block k carries the caption of the
\* k-th retained block of X, whatever the index lines of X were.
RoundTripRenumbers ==
    stage = "generated" =>
        LET n    == Len(parsed)
            kept == Retained(srcDoc)
            obs  == parseSRT(generated)
        IN  /\ Len(kept) = n
            /\ Len(obs) = n
            /\ n = 0 => generated = <<>>
            /\ n > 0 => Len(SplitBlocks(generated)) = n
            /\ \A k \in 1..n :
                  /\ OutputLine(generated, k, 1) = ToDecimal(k)
                  /\ obs[k].index = Num(k)
                  /\ obs[k].text = kept[k].text

\* two blocks retained, the first behind index 7, the second behind a
\* non-numeric index line
RoundTripRenumbersWitness ==
    /\ stage = "generated"
    /\ Len(parsed) = 2
    /\ parsed[1].index = Num(7)
    /\ parsed[2].index = NaN
    /\ OutputLine(generated, 2, 1) = <<"2">>

\* C2: the timecode line generateSRT writes for a retained block holds the start
\* and end timecodes exactly as they stand on the block's timecode line in X.
TimecodesVerbatim ==
    stage = "generated" =>
        LET kept == Retained(srcDoc)
        IN  \A k \in 1..Len(kept) :
                OutputLine(generated, k, 2) = kept[k].start \o Arrow \o kept[k].end

\* C3: a block yields an entry exactly if it has at least three lines and a
\* timecode range on its second line; any other block yields nothing and leaves
\* the entries of the other blocks as they are.
DropsExactlyMalformedBlocks ==
    stage = "parsed" =>
        LET alone == [k \in 1..Len(srcDoc.blocks) |-> parseSRT(BlockText(srcDoc.blocks[k]))]
        IN  /\ \A k \in 1..Len(srcDoc.blocks) :
                  Len(alone[k]) = IF ShouldRetain(srcDoc.blocks[k]) THEN 1 ELSE 0
            /\ parsed = Flatten(alone)

\* a block of index and timecode line only is dropped, the block after it is kept
DropsExactlyMalformedBlocksWitness ==
    /\ stage = "parsed"
    /\ Len(srcDoc.blocks) = 2
    /\ srcDoc.blocks[1].tc
    /\ Len(srcDoc.blocks[1].lines) = 2
    /\ Len(parsed) = 1
    /\ parsed[1].text = srcDoc.blocks[2].text

\* C4: the text of an entry is every line of its block after the timecode line,
\* joined with one line feed and trimmed: one entry per block, no line lost.
CaptionKeepsAllLines ==
    stage = "parsed" =>
        LET kept == Retained(srcDoc)
        IN  /\ Len(parsed) = Len(kept)
            /\ \A k \in 1..Len(kept) :
                  /\ parsed[k].text = kept[k].text
                  /\ parsed[k].text =
                        Trim(Join(SubSeq(kept[k].lines, 3, Len(kept[k].lines)), <<NL>>))

\* a caption of two lines is one entry with the line feed inside its text
CaptionKeepsAllLinesWitness ==
    /\ stage = "parsed"
    /\ \E k \in 1..Len(parsed) : parsed[k].text = LineOne \o <<NL>> \o LineTwo

-----------------------------------------------------------------------------
(* Properties of the component, under Spec and SpecDirect *)

\* what translating every entry of a file into language l and generating gives
Translation(f, l) ==
    LET src == parseSRT(f.content)
    IN  generateSRT([k \in 1..Len(src) |->
                        [src[k] EXCEPT !.text = translateText(src[k].text, l)]])

\* C5: every translator call of a run is started when the file has been parsed,
\* and when the run succeeds block k of translatedSRT carries the translation of
\* entry k with the timecodes of entry k, in whatever order the calls completed.
OrderPreserved ==
    /\ \A i \in 1..Len(runs) :
          runs[i].phase = "translating" => Len(runs[i].calls) = Len(runs[i].entries)
    /\ event.toast = ToastTranslated =>
          LET run == event.run
              src == parseSRT(run.file.content)
              obs == parseSRT(translatedSRT)
          IN  /\ Len(obs) = Len(src)
              /\ \A k \in 1..Len(src) :
                    /\ obs[k].index = Num(k)
                    /\ obs[k].startTime = src[k].startTime
                    /\ obs[k].endTime = src[k].endTime
                    /\ obs[k].text = translateText(src[k].text, run.lang)

\* a run of three entries succeeded whose calls completed third, first, second
OrderPreservedWitness ==
    /\ event.toast = ToastTranslated
    /\ event.run.order = <<3, 1, 2>>
    /\ translatedSRT # <<>>

\* C6: a step in which a translator call fails leaves translatedSRT as it is,
\* raises the error notification, ends the run and starts nothing; translatedSRT
\* only ever changes by a file selection clearing it or by a run all of whose
\* calls resolved.
FailureIsAllOrNothing ==
    [][/\ event'.name = "translateTextReject" =>
            /\ translatedSRT' = translatedSRT
            /\ event'.toast = ToastFailed
            /\ Len(runs') = Len(runs) - 1
            /\ ~isTranslating'
       /\ translatedSRT' # translatedSRT =>
            \/ event'.name = "handleFileSelect" /\ translatedSRT' = <<>>
            \/ event'.toast = ToastTranslated /\ AllResolved(event'.run)]_vars

\* a call failed after another call of the same run had resolved, and the
\* result of an earlier run is still in translatedSRT
FailureIsAllOrNothingWitness ==
    /\ event.name = "translateTextReject"
    /\ event.toast = ToastFailed
    /\ Len(event.run.order) >= 2
    /\ translatedSRT # <<>>

\* C7: handleTranslate called without a file or without a language starts no
\* run, leaves isTranslating, translatedSRT and originalEntries as they are and
\* raises the error notification only.
MissingInputNotAttempted ==
    [][(event'.name = "handleTranslate" /\ (file.isNull \/ selectedLanguage = "")) =>
            /\ runs' = runs
            /\ isTranslating' = isTranslating
            /\ ~isTranslating'
            /\ translatedSRT' = translatedSRT
            /\ originalEntries' = originalEntries
            /\ event'.toast = ToastMissing
            /\ event'.run = NoRun]_vars

\* handleTranslate was called with a file selected and no language
MissingInputNotAttemptedWitness ==
    /\ event.name = "handleTranslate"
    /\ event.toast = ToastMissing
    /\ ~file.isNull
    /\ selectedLanguage = ""

\* C8: when the success notification of a run has been raised, translatedSRT is
\* not empty, so the download button is shown and handleDownload does its work.
SuccessOffersDownload ==
    event.toast = ToastTranslated => translatedSRT # <<>>

\* C9: a translatedSRT that is not empty is the translation of the selected file.
ResultIsOfSelectedFile ==
    translatedSRT # <<>> =>
        /\ ~file.isNull
        /\ \E l \in Languages : translatedSRT = Translation(file, l)

\* C10: isTranslating is true exactly while a run is in flight, at most one run
\* is in flight, and when a run has ended, either way, isTranslating is false
\* and the translate button is enabled.
OneRunWhileTranslating ==
    /\ Len(runs) <= 1
    /\ isTranslating <=> Len(runs) = 1
    /\ event.run.phase \in {"resolved", "rejected"} =>
          ~isTranslating /\ ~TranslateButtonDisabled

\* a run ended on the failure path of a translator call
OneRunWhileTranslatingWitness ==
    /\ event.run.phase = "rejected"
    /\ event.name = "translateTextReject"
    /\ runs = <<>>
    /\ ~isTranslating

====
